---- MODULE Spec2Model ----
(***************************************************************************)
(* Model of src-tauri/src/main.rs: the calendar fetch command              *)
(* (get_calendar_events), the two window commands (enter_alert_mode,       *)
(* exit_alert_mode) and the tray / menu event handlers installed by main.  *)
(*                                                                         *)
(* Text is a sequence of one-character strings; "FF" stands for the byte   *)
(* 0xFF, which no UTF-8 text contains.                                     *)
(***************************************************************************)
EXTENDS Integers, Sequences, FiniteSets, TLC

\* ------------------------------------------------------------------ bounds
MaxLen == 4
NumCallers == 2

\* ------------------------------------------------------- text and bytes
Byte == {"[", "]", " ", "\n", "1", "FF"}

Strings(n) == UNION {[1..k -> Byte] : k \in 0..n}

\* char::is_whitespace, on the bytes of the model
IsWs(c) == c \in {" ", "\n"}

RECURSIVE TrimStart(_)
TrimStart(s) ==
    IF s = <<>> THEN s
    ELSE IF IsWs(Head(s)) THEN TrimStart(Tail(s)) ELSE s

RECURSIVE TrimEnd(_)
TrimEnd(s) ==
    IF s = <<>> THEN s
    ELSE IF IsWs(s[Len(s)]) THEN TrimEnd(SubSeq(s, 1, Len(s) - 1)) ELSE s

\* str::trim with the trailing side only (str::trim_end)
Trim_end_only(s) == TrimEnd(s)

\* str::trim
Trim(s) == TrimEnd(TrimStart(s))

\* String::from_utf8: Err when a byte is not part of any UTF-8 encoding,
\* otherwise the same bytes as text
FromUtf8(bytes) ==
    IF \E i \in 1..Len(bytes) : bytes[i] = "FF"
    THEN [ok |-> FALSE, val |-> <<>>]
    ELSE [ok |-> TRUE, val |-> bytes]

\* Result::unwrap_or_default, which yields the empty text on Err
UnwrapOr_default(r, d) == IF r.ok THEN r.val ELSE <<>>

\* Result::unwrap_or
UnwrapOr(r, d) == IF r.ok THEN r.val ELSE d

\* the literal "[]"
EmptyArray == <<"[", "]">>

\* what the embedded Swift script prints when it runs to its end: print("[]")
\* on a denied permission or a failed encoding, print(string) with the
\* encoded events otherwise; print appends a newline
ScriptOutputs == { <<"[", "]", "\n">>, <<"[", "1", "]", "\n">> }

\* ----------------------------------------------------------------- state
VARIABLES
    pc,         \* caller -> position inside get_calendar_events
    script,     \* state of <temp dir>/fetch_calendar.swift
    linked,     \* caller -> its open handle is the file the path names
    writeOk,    \* caller -> fs::write returned Ok
    spawned,    \* caller -> Command::output was called
    seen,       \* caller -> state of the script file when the child read it
    removed,    \* caller -> fs::remove_file returned Ok
    output,     \* caller -> the value of `output`
    result,     \* caller -> the returned String
    window,     \* OS attributes of the window
    mainExists, \* a webview window labelled "main" exists
    status,     \* "running", "exited" (app.exit) or "panicked" (unwrap)
    exitCode,   \* the code given to app.exit
    lastOp,     \* the handler that ran last
    prevOp,     \* the handler that ran before it
    issued      \* the window calls the last handler issued, with outcome

fetchVars == <<pc, script, linked, writeOk, spawned, seen, removed, output,
               result>>
windowVars == <<window, mainExists, status, exitCode, lastOp, prevOp, issued>>
vars == <<pc, script, linked, writeOk, spawned, seen, removed, output, result,
          window, mainExists, status, exitCode, lastOp, prevOp, issued>>

Callers == 1..NumCallers

\* the caller of the single-call specification
MainCaller == 1

NoOutput == [launched |-> FALSE, stdout |-> <<>>, status |-> 0]

InitFetchVars ==
    /\ pc = [p \in Callers |-> "start"]
    /\ script \in {"absent", "full"}
    /\ linked = [p \in Callers |-> FALSE]
    /\ writeOk = [p \in Callers |-> FALSE]
    /\ spawned = [p \in Callers |-> FALSE]
    /\ seen = [p \in Callers |-> "none"]
    /\ removed = [p \in Callers |-> FALSE]
    /\ output = [p \in Callers |-> NoOutput]
    /\ result = [p \in Callers |-> <<>>]

\* ------------------------------------------------- get_calendar_events
\* fs::remove_file that leaves the file in place
RemoveFile_keep(f) == f

\* fs::remove_file on the script path, when it succeeds
RemoveFile(f) == "absent"

\* fs::write, first half: File::create opens and truncates the path.
\* On Err the command returns "[]" at once.
WriteCreate(p) ==
    /\ pc[p] = "start"
    /\ \E ok \in BOOLEAN :
        IF ok
        THEN /\ script' = "partial"
             /\ linked' = [linked EXCEPT ![p] = TRUE]
             /\ pc' = [pc EXCEPT ![p] = "writing"]
             /\ UNCHANGED result
        ELSE /\ result' = [result EXCEPT ![p] = EmptyArray]
             /\ pc' = [pc EXCEPT ![p] = "done"]
             /\ UNCHANGED <<script, linked>>
    /\ UNCHANGED <<writeOk, spawned, seen, removed, output>>
    /\ UNCHANGED windowVars

\* fs::write, second half: write_all of the script text through the handle.
\* The path holds the whole script afterwards only when the handle still is
\* the file the path names.
WriteAll(p) ==
    /\ pc[p] = "writing"
    /\ \E ok \in BOOLEAN :
        IF ok
        THEN /\ script' = IF linked[p] THEN "full" ELSE script
             /\ writeOk' = [writeOk EXCEPT ![p] = TRUE]
             /\ pc' = [pc EXCEPT ![p] = "spawn"]
             /\ UNCHANGED result
        ELSE /\ result' = [result EXCEPT ![p] = EmptyArray]
             /\ pc' = [pc EXCEPT ![p] = "done"]
             /\ UNCHANGED <<script, writeOk>>
    /\ UNCHANGED <<linked, spawned, seen, removed, output>>
    /\ UNCHANGED windowVars

\* Command::new("/usr/bin/swift").arg(&script_path).output(): the launch.
\* Err when the child cannot be started; otherwise the caller blocks until
\* the child exits.
Spawn(p) ==
    /\ pc[p] = "spawn"
    /\ spawned' = [spawned EXCEPT ![p] = TRUE]
    /\ \E ok \in BOOLEAN :
        pc' = [pc EXCEPT ![p] = IF ok THEN "waiting" ELSE "cleanup"]
    /\ UNCHANGED <<script, linked, writeOk, seen, removed, output, result>>
    /\ UNCHANGED windowVars

\* The child is an arbitrary process: any exit status, any bytes on stdout.
SimulatedExit(p) ==
    /\ pc[p] = "waiting"
    /\ \E out \in Strings(MaxLen), st \in {0, 1} :
        output' = [output EXCEPT ![p] =
                      [launched |-> TRUE, stdout |-> out, status |-> st]]
    /\ seen' = [seen EXCEPT ![p] = script]
    /\ pc' = [pc EXCEPT ![p] = "cleanup"]
    /\ UNCHANGED <<script, linked, writeOk, spawned, removed, result>>
    /\ UNCHANGED windowVars

\* The child is /usr/bin/swift on the script path: it runs the script when
\* the path holds the whole script, and prints nothing on stdout when the
\* path is missing or holds a truncated script.
SwiftExit(p) ==
    /\ pc[p] = "waiting"
    /\ seen' = [seen EXCEPT ![p] = script]
    /\ IF script = "full"
       THEN \E out \in ScriptOutputs :
              output' = [output EXCEPT ![p] =
                            [launched |-> TRUE, stdout |-> out, status |-> 0]]
       ELSE \E st \in (IF script = "absent" THEN {1} ELSE {0, 1}) :
              output' = [output EXCEPT ![p] =
                            [launched |-> TRUE, stdout |-> <<>>, status |-> st]]
    /\ pc' = [pc EXCEPT ![p] = "cleanup"]
    /\ UNCHANGED <<script, linked, writeOk, spawned, removed, result>>
    /\ UNCHANGED windowVars

\* the value of the final match on `output`
MatchOutput(o) ==
    IF o.launched
    THEN Trim(UnwrapOr(FromUtf8(o.stdout), EmptyArray))
    ELSE EmptyArray

\* let _ = fs::remove_file(script_path), then the match and the return.
\* A removal unlinks the file from every open handle.
Finish(p) ==
    /\ pc[p] = "cleanup"
    /\ \E ok \in BOOLEAN :
        IF ok /\ script # "absent"
        THEN /\ script' = RemoveFile(script)
             /\ linked' = [q \in Callers |-> linked[q] /\ script' # "absent"]
             /\ removed' = [removed EXCEPT ![p] = TRUE]
        ELSE UNCHANGED <<script, linked, removed>>
    /\ result' = [result EXCEPT ![p] = MatchOutput(output[p])]
    /\ pc' = [pc EXCEPT ![p] = "done"]
    /\ UNCHANGED <<writeOk, spawned, seen, output>>
    /\ UNCHANGED windowVars

\* ------------------------------------------------------------ the window
Call(op, arg) == [op |-> op, arg |-> arg]

\* the effect of one window call that the OS carries out
Apply(w, c) ==
    CASE c.op = "show"              -> [w EXCEPT !.visible = TRUE]
      [] c.op = "set_fullscreen"    -> [w EXCEPT !.fullscreen = c.arg]
      [] c.op = "set_always_on_top" -> [w EXCEPT !.alwaysOnTop = c.arg]
      [] c.op = "set_focus"         -> [w EXCEPT !.focused = TRUE]

\* Issue calls[k], calls[k+1], ... on w; the calls whose index is in fails
\* return Err and change nothing.  With stopOnErr the first Err panics
\* (.unwrap()); without it the Err is dropped (let _ = ...).
RECURSIVE RunFrom(_, _, _, _, _)
RunFrom(w, calls, fails, k, stopOnErr) ==
    IF k > Len(calls)
    THEN [window |-> w, issued |-> <<>>, panicked |-> FALSE]
    ELSE IF k \in fails
    THEN IF stopOnErr
         THEN [window |-> w,
               issued |-> <<[call |-> calls[k], ok |-> FALSE]>>,
               panicked |-> TRUE]
         ELSE LET r == RunFrom(w, calls, fails, k + 1, stopOnErr)
              IN  [r EXCEPT !.issued = <<[call |-> calls[k], ok |-> FALSE]>> \o @]
    ELSE LET r == RunFrom(Apply(w, calls[k]), calls, fails, k + 1, stopOnErr)
         IN  [r EXCEPT !.issued = <<[call |-> calls[k], ok |-> TRUE]>> \o @]

\* a sequence of calls written  window.f(..).unwrap();
RunUnwrap(w, calls, fails) == RunFrom(w, calls, fails, 1, TRUE)

\* a sequence of calls written  let _ = window.f(..);
RunIgnore(w, calls, fails) == RunFrom(w, calls, fails, 1, FALSE)

\* enter_alert_mode with set_always_on_top issued before set_fullscreen
EnterCalls_swapped ==
    << Call("show", TRUE), Call("set_always_on_top", TRUE),
       Call("set_fullscreen", TRUE), Call("set_focus", TRUE) >>

\* the body of enter_alert_mode
EnterCalls ==
    << Call("show", TRUE), Call("set_fullscreen", TRUE),
       Call("set_always_on_top", TRUE), Call("set_focus", TRUE) >>

\* exit_alert_mode without its second statement
ExitCalls_first_only == << Call("set_always_on_top", FALSE) >>

\* the body of exit_alert_mode
ExitCalls ==
    << Call("set_always_on_top", FALSE), Call("set_fullscreen", FALSE) >>

\* the body of the "show" arm and of the left-click arm
ShowCalls == << Call("show", TRUE), Call("set_focus", TRUE) >>

EnterAlertModeRun(w, fails) == RunUnwrap(w, EnterCalls, fails)

\* exit_alert_mode written with  let _ = ...
ExitAlertModeRun_ignore(w, fails) == RunIgnore(w, ExitCalls, fails)

ExitAlertModeRun(w, fails) == RunUnwrap(w, ExitCalls, fails)

Command(name) == [src |-> "command", id |-> name]
Menu(id) == [src |-> "menu", id |-> id]
Tray(ev) == [src |-> "tray", id |-> ev]
NoOp == [src |-> "none", id |-> "none"]

\* the ids a menu event can carry: the two items of the menu, and any other
MenuIds == {"quit", "show", "other"}

\* TrayIconEvent values: Click with its button, and the other variants
TrayEvents == {"Click:Left", "Click:Right", "DoubleClick:Left", "Enter"}

\* a tray match that takes the first arm on a click of any button
TrayShows_any_click(ev) == ev \in {"Click:Left", "Click:Right"}

\* the pattern TrayIconEvent::Click { button: MouseButton::Left, .. }
TrayShows(ev) == ev = "Click:Left"

\* A handler ran: its calls, their outcome, and the handler's name.
Record(op, r) ==
    /\ window' = r.window
    /\ issued' = r.issued
    /\ status' = IF r.panicked THEN "panicked" ELSE status
    /\ prevOp' = lastOp
    /\ lastOp' = op
    /\ UNCHANGED <<mainExists, exitCode>>

\* a handler that touches no window
Nothing == [window |-> window, issued |-> <<>>, panicked |-> FALSE]

\* if let Some(window) = app.get_webview_window("main") { show; set_focus }
ShowMain(op) ==
    IF mainExists
    THEN \E fails \in SUBSET (1..Len(ShowCalls)) :
            Record(op, RunIgnore(window, ShowCalls, fails))
    ELSE Record(op, Nothing)

EnterAlertMode ==
    /\ status = "running"
    /\ mainExists
    /\ \E fails \in SUBSET (1..Len(EnterCalls)) :
          Record(Command("enter_alert_mode"), EnterAlertModeRun(window, fails))
    /\ UNCHANGED fetchVars

ExitAlertMode ==
    /\ status = "running"
    /\ mainExists
    /\ \E fails \in SUBSET (1..Len(ExitCalls)) :
          Record(Command("exit_alert_mode"), ExitAlertModeRun(window, fails))
    /\ UNCHANGED fetchVars

\* the closure given to on_menu_event
OnMenuEvent(id) ==
    /\ status = "running"
    /\ CASE id = "quit" ->
              /\ status' = "exited"
              /\ exitCode' = 0
              /\ issued' = <<>>
              /\ prevOp' = lastOp
              /\ lastOp' = Menu(id)
              /\ UNCHANGED <<window, mainExists>>
         [] id = "show" -> ShowMain(Menu(id))
         [] OTHER -> Record(Menu(id), Nothing)
    /\ UNCHANGED fetchVars

\* the closure given to on_tray_icon_event
OnTrayIconEvent(ev) ==
    /\ status = "running"
    /\ IF TrayShows(ev) THEN ShowMain(Tray(ev)) ELSE Record(Tray(ev), Nothing)
    /\ UNCHANGED fetchVars

\* --------------------------------------------------------- specifications
Windows == [visible : BOOLEAN, fullscreen : BOOLEAN,
            alwaysOnTop : BOOLEAN, focused : BOOLEAN]

InitWindowVars(ws) ==
    /\ window \in ws
    /\ mainExists \in BOOLEAN
    /\ status = "running"
    /\ exitCode = -1
    /\ lastOp = NoOp
    /\ prevOp = NoOp
    /\ issued = <<>>

\* one call of get_calendar_events against an arbitrary child process
Init ==
    /\ InitFetchVars
    /\ InitWindowVars({w \in Windows : ~w.fullscreen /\ ~w.alwaysOnTop
                                        /\ ~w.visible /\ ~w.focused})
    /\ mainExists

Next ==
    \/ WriteCreate(MainCaller)
    \/ WriteAll(MainCaller)
    \/ Spawn(MainCaller)
    \/ SimulatedExit(MainCaller)
    \/ Finish(MainCaller)

Spec == Init /\ [][Next]_vars

\* concurrent calls of get_calendar_events, the child being /usr/bin/swift
RaceNext ==
    \E p \in Callers :
        \/ WriteCreate(p)
        \/ WriteAll(p)
        \/ Spawn(p)
        \/ SwiftExit(p)
        \/ Finish(p)

SpecRace == Init /\ [][RaceNext]_vars

\* the window commands and the tray, from a window that is not in alert mode
WindowInit ==
    /\ InitFetchVars
    /\ script = "absent"
    /\ InitWindowVars({w \in Windows : ~w.fullscreen /\ ~w.alwaysOnTop})

WindowNext ==
    \/ EnterAlertMode
    \/ ExitAlertMode
    \/ \E id \in MenuIds : OnMenuEvent(id)
    \/ \E ev \in TrayEvents : OnTrayIconEvent(ev)

SpecWindow == WindowInit /\ [][WindowNext]_vars

\* the same, from any window state
AnyWindowInit ==
    /\ InitFetchVars
    /\ script = "absent"
    /\ InitWindowVars(Windows)

SpecAnyWindow == AnyWindowInit /\ [][WindowNext]_vars

\* ------------------------------------------------------------ properties
\* JSON whitespace, stripped from both ends
RECURSIVE Strip(_)
Strip(s) ==
    IF s = <<>> THEN s
    ELSE IF s[1] \in {" ", "\n"} THEN Strip(Tail(s))
    ELSE IF s[Len(s)] \in {" ", "\n"} THEN Strip(SubSeq(s, 1, Len(s) - 1))
    ELSE s

\* s is a JSON array, over the values the bytes of the model can spell:
\* the number 1 and arrays (no comma, so at most one element)
RECURSIVE IsJsonArray(_)
IsJsonArray(s) ==
    LET t == Strip(s) IN
    /\ Len(t) >= 2
    /\ t[1] = "["
    /\ t[Len(t)] = "]"
    /\ LET inner == Strip(SubSeq(t, 2, Len(t) - 1)) IN
         \/ inner = <<>>
         \/ inner = <<"1">>
         \/ IsJsonArray(inner)

\* r is s without its leading and trailing whitespace, and nothing else
IsTrimOf(r, s) ==
    \E i \in 1..(Len(s) + 1), j \in 0..Len(s) :
        /\ r = SubSeq(s, i, j)
        /\ \A k \in 1..(i - 1) : s[k] \in {" ", "\n"}
        /\ \A k \in (j + 1)..Len(s) : s[k] \in {" ", "\n"}
        /\ r # <<>> => (r[1] \notin {" ", "\n"} /\ r[Len(r)] \notin {" ", "\n"})

Done(p) == pc[p] = "done"

\* C1: every finished call of get_calendar_events returned a syntactically
\* valid JSON array.
C1_AlwaysJsonArray ==
    \A p \in Callers : Done(p) => IsJsonArray(result[p])

\* C2: a call whose child exited with a non-zero status returned exactly
\* "[]".
C2_NonZeroExitGivesEmptyArray ==
    \A p \in Callers :
        (Done(p) /\ output[p].launched /\ output[p].status # 0)
            => result[p] = EmptyArray

\* C3: when the script was written, the child was launched and its stdout is
\* a valid JSON array, the call returned that stdout without its leading and
\* trailing whitespace and with no other change.
C3_ValidOutputReturnedTrimmed ==
    \A p \in Callers :
        (Done(p) /\ writeOk[p] /\ output[p].launched
                 /\ IsJsonArray(output[p].stdout))
            => IsTrimOf(result[p], output[p].stdout)

C3_Witness ==
    /\ Done(MainCaller)
    /\ output[MainCaller].launched
    /\ output[MainCaller].stdout = <<"\n", "[", "]", " ">>
    /\ result[MainCaller] = <<"[", "]">>

\* C4: a failed script write, a failed launch and an undecodable stdout each
\* make the call return "[]"; after a failed write no child was launched.
C4_FailuresGiveEmptyArray ==
    \A p \in Callers :
        Done(p) =>
            /\ ~writeOk[p] => (result[p] = EmptyArray /\ ~spawned[p])
            /\ (spawned[p] /\ ~output[p].launched) => result[p] = EmptyArray
            /\ (output[p].launched
                  /\ \E i \in 1..Len(output[p].stdout) :
                         output[p].stdout[i] = "FF")
                 => result[p] = EmptyArray

C4_Witness ==
    /\ Done(MainCaller)
    /\ output[MainCaller].launched
    /\ output[MainCaller].stdout = <<"[", "FF", "]">>
    /\ result[MainCaller] = EmptyArray

EnterOp == Command("enter_alert_mode")
ExitOp == Command("exit_alert_mode")

\* C5: whatever the window state was, once enter_alert_mode and then at once
\* exit_alert_mode have run, fullscreen and alwaysOnTop are both false.
C5_EnterThenExitClears ==
    (status = "running" /\ prevOp = EnterOp /\ lastOp = ExitOp)
        => (~window.fullscreen /\ ~window.alwaysOnTop)

C5_Witness ==
    /\ status = "running"
    /\ prevOp = EnterOp
    /\ lastOp = ExitOp
    /\ Len(issued) = 2
    /\ window = [visible |-> TRUE, fullscreen |-> FALSE,
                 alwaysOnTop |-> FALSE, focused |-> TRUE]

ShowOps == {Menu("show"), Tray("Click:Left")}

\* C6: menu id "quit" ends the process with exit code 0; menu id "show" and a
\* left click on the tray icon do nothing when there is no main window, and
\* otherwise both issue show and then set_focus, ignoring their failures;
\* every other menu id and tray event changes nothing.
C6_Dispatch ==
    [][ /\ lastOp' = Menu("quit") => (status' = "exited" /\ exitCode' = 0)
        /\ (lastOp' \in ShowOps /\ ~mainExists)
              => (window' = window /\ status' = status /\ issued' = <<>>)
        /\ (lastOp' \in ShowOps /\ mainExists)
              => /\ Len(issued') = 2
                 /\ issued'[1].call.op = "show"
                 /\ issued'[2].call.op = "set_focus"
                 /\ status' = status
                 /\ window' = [window EXCEPT
                       !.visible = @ \/ issued'[1].ok,
                       !.focused = @ \/ issued'[2].ok]
        /\ (lastOp'.src \in {"menu", "tray"}
               /\ lastOp' \notin ShowOps /\ lastOp' # Menu("quit"))
              => (window' = window /\ status' = status
                   /\ exitCode' = exitCode /\ issued' = <<>>)
      ]_vars

C6_Witness ==
    /\ prevOp = Tray("Click:Left")
    /\ lastOp = Menu("quit")
    /\ status = "exited"
    /\ exitCode = 0
    /\ mainExists
    /\ window.visible
    /\ window.focused

\* C7: exit_alert_mode ignores the failure of its window calls: it never
\* aborts the process and always attempts both calls.
C7_ExitIsBestEffort ==
    lastOp = ExitOp => (status # "panicked" /\ Len(issued) = 2)

\* C8: the callers share one script path without mutual exclusion: when a
\* caller removes the script while another caller has written it and that
\* caller's child has not read it yet, the path is missing for that child;
\* and a call whose child found the path missing or half-written returns the
\* empty text, not the events.
C8_SharedPathRace ==
    /\ [][ \A p \in Callers : \A q \in Callers \ {p} :
             (pc[p] \in {"spawn", "waiting"} /\ pc[q] = "cleanup"
                /\ pc'[q] = "done" /\ removed'[q])
                => script' = "absent" ]_vars
    /\ [](\A p \in Callers :
            (Done(p) /\ seen[p] \in {"absent", "partial"})
                => result[p] = <<>>)

C8_Witness ==
    \E p \in Callers : \E q \in Callers \ {p} :
        /\ Done(p) /\ Done(q)
        /\ writeOk[p]
        /\ seen[p] = "absent"
        /\ result[p] = <<>>
        /\ removed[q]
        /\ seen[q] = "full"
        /\ result[q] = <<"[", "1", "]">>

\* C9: enter_alert_mode issues show, set_fullscreen(true),
\* set_always_on_top(true), set_focus in this order; the first failing call
\* is the last one issued and aborts, and the effects of the calls before it
\* stay applied.
C9_EnterOrderAndAbort ==
    lastOp = EnterOp =>
        LET n == Len(issued)
            order == <<"show", "set_fullscreen", "set_always_on_top",
                       "set_focus">>
        IN  /\ n \in 1..4
            /\ \A i \in 1..n : issued[i].call.op = order[i] /\ issued[i].call.arg
            /\ \A i \in 1..(n - 1) : issued[i].ok
            /\ issued[n].ok => (n = 4 /\ status = "running")
            /\ ~issued[n].ok => status = "panicked"
            /\ (n > 1 \/ issued[1].ok) => window.visible
            /\ (n > 2 \/ (n = 2 /\ issued[2].ok)) => window.fullscreen
            /\ (n > 3 \/ (n = 3 /\ issued[3].ok)) => window.alwaysOnTop
            /\ (n = 4 /\ issued[4].ok) => window.focused

C9_Witness ==
    /\ lastOp = EnterOp
    /\ Len(issued) = 3
    /\ ~issued[3].ok
    /\ status = "panicked"
    /\ window.visible
    /\ window.fullscreen
    /\ ~window.alwaysOnTop

\* C10 as stated: after any sequence of handlers, failing window calls
\* included, fullscreen and alwaysOnTop are equal whenever no handler is
\* running.
C10_NoPartialAlert ==
    window.fullscreen = window.alwaysOnTop

\* C10 as amended: while the process is running, fullscreen and alwaysOnTop
\* are equal whenever no handler is running.
C10_NoPartialAlertWhileRunning ==
    status = "running" => window.fullscreen = window.alwaysOnTop

C10_Witness ==
    /\ status = "running"
    /\ prevOp = Tray("Click:Left")
    /\ lastOp = EnterOp
    /\ window.fullscreen
    /\ window.alwaysOnTop

====
